---- MODULE Spec2Model ----
(***************************************************************************)
(* Device session of the IoT fleet simulator:                              *)
(*   devices/simulators/base_device.py      (BaseDevice)                   *)
(*   devices/simulators/schema_validator.py (SchemaValidator)              *)
(*                                                                         *)
(* Threads share one BaseDevice object: the main thread, which runs       *)
(* connect() and then the telemetry loop run(), the network thread of the  *)
(* MQTT client (loop_start), which runs the callbacks _on_connect,         *)
(* _on_disconnect and _on_message, and a thread of the session's owner,    *)
(* which calls disconnect().  Every step below is one statement (or one    *)
(* run of statements that touches no state another thread writes).         *)
(***************************************************************************)
EXTENDS Integers, Sequences, FiniteSets, TLC

(***************************************************************************)
(* Bounds of the model.                                                    *)
(***************************************************************************)
\* the wall clock stops advancing here (seconds); bounds the number of cycles
MaxTime == 5
\* failures are injected only while error_count is below this
MaxErrors == 1
\* the main thread calls disconnect() at most this many times
MaxDisconnects == 2

(***************************************************************************)
(* Program constants.                                                      *)
(***************************************************************************)
\* base_device.py:170  time.sleep(2)
ConnectWait == 2
\* base_device.py:41   publish_interval: int = 5
DefaultPublishInterval == 5
\* override of the interval given to run(); 0 stands for None
IntervalOverrides == {0, 3, -1}

Absent == "<absent>"
NotAString == "<not-a-string>"
NotAnObject == "<not-an-object>"

(***************************************************************************)
(* Strings whose content is inspected are sequences of characters.         *)
(***************************************************************************)
SensorWord == <<"s", "e", "n", "s", "o", "r">>

\* Python's  sub in s  for strings
IsSubstring(sub, s) ==
    \E i \in 0..(Len(s) - Len(sub)) :
        \A j \in 1..Len(sub) : s[i + j] = sub[j]

(***************************************************************************)
(* DeviceConfig: the identities the model is run with.                     *)
(***************************************************************************)
DeviceConfig ==
    { [device_id |-> "gas-sensor-01",
       device_type |-> <<"g", "a", "s", "_">> \o SensorWord,
       publish_interval |-> DefaultPublishInterval],
      [device_id |-> "lock-01",
       device_type |-> <<"l", "o", "c", "k">>,
       publish_interval |-> DefaultPublishInterval] }

DeviceStatus == {"ACTIVE", "INACTIVE", "ERROR", "OFFLINE"}

SchemaNames == {"telemetry", "alert", "command"}

\* what a schema file holds when the validator is constructed:
\*   "schema"    the schema of the repository
\*   "missing"   no such file                     (FileNotFoundError)
\*   "badjson"   not JSON                         (json.JSONDecodeError)
\*   "notschema" JSON that is not a JSON schema   (loads; validate() raises SchemaError)
FileKinds == {"schema", "missing", "badjson", "notschema"}
\* the directories the model is run with: at most one file is not the
\* schema; the telemetry file is tried missing and as no schema, the alert
\* file as no JSON and the command file as no schema
SchemaFileSets ==
    {f \in [SchemaNames -> FileKinds] :
        /\ Cardinality({n \in SchemaNames : f[n] # "schema"}) <= 1
        /\ f["telemetry"] \in {"schema", "missing", "notschema"}
        /\ f["alert"] \in {"schema", "badjson"}
        /\ f["command"] \in {"schema", "notschema"}}
\* the sessions the model is run with: the sensor with each of these
\* directories, the lock with the three schema files of the repository
Sessions ==
    {s \in DeviceConfig \X SchemaFileSets :
        \/ s[1].device_id = "gas-sensor-01"
        \/ \A n \in SchemaNames : s[2][n] = "schema"}


(***************************************************************************)
(* SchemaValidator (schema_validator.py).                                  *)
(***************************************************************************)
\* _load_schemas: a schema enters self.schemas only if its file opened and
\* parsed; FileNotFoundError and JSONDecodeError leave the name absent.
\* The result maps each loaded name to the parsed content of its file.
_load_schemas(files) ==
    [n \in {m \in SchemaNames : files[m] \notin {"missing", "badjson"}} |-> files[n]]

\* The three schema files of the repository (backend/docs/mqtt/schemas),
\* as structural checks.
\* telemetry: {device_id: string, timestamp: integer, type: sensor|actuator,
\*             payload: object}
ConformsTelemetry(m) ==
    /\ m.device_id # NotAString
    /\ m.timestamp \in Int
    /\ m.type \in {"sensor", "actuator"}
    /\ m.payload.t = "obj"

\* alert: the same envelope, payload {status: string, severity: LOW|MEDIUM|CRITICAL, ...}
ConformsAlert(m) ==
    /\ m.device_id # NotAString
    /\ m.timestamp \in Int
    /\ m.type \in {"sensor", "actuator"}
    /\ m.payload.status \notin {Absent, NotAString}
    /\ m.payload.severity \in {"LOW", "MEDIUM", "CRITICAL"}

\* command: {request_id: string, action: string, parameters: object}
ConformsCommand(m) ==
    /\ m.t = "obj"
    /\ m.request_id \notin {Absent, NotAString}
    /\ m.action \notin {Absent, NotAString}
    /\ m.parameters \notin {Absent, NotAnObject}

Conforms(message, schema_name) ==
    CASE schema_name = "telemetry" -> ConformsTelemetry(message)
      [] schema_name = "alert"     -> ConformsAlert(message)
      [] schema_name = "command"   -> ConformsCommand(message)

\* jsonschema.validate(instance, schema): checks the schema itself first
\* (SchemaError), then the instance (ValidationError).
jsonschema_validate(message, schema_name, content) ==
    IF content = "notschema" THEN "SchemaError"
    ELSE IF Conforms(message, schema_name) THEN "ok"
    ELSE "ValidationError"

\* _validate failing open: a schema that is not loaded accepts every message
_validate_fail_open(loaded, message, schema_name) ==
    IF schema_name \notin DOMAIN loaded THEN TRUE
    ELSE jsonschema_validate(message, schema_name, loaded[schema_name]) = "ok"

\* SchemaValidator._validate: False for a schema that is not loaded, False for
\* every exception of validate(), True otherwise.
_validate(loaded, message, schema_name) ==
    IF schema_name \notin DOMAIN loaded THEN FALSE
    ELSE jsonschema_validate(message, schema_name, loaded[schema_name]) = "ok"

validate_telemetry(loaded, message) == _validate(loaded, message, "telemetry")
validate_alert(loaded, message) == _validate(loaded, message, "alert")
validate_command(loaded, message) == _validate(loaded, message, "command")


(***************************************************************************)
(* Values exchanged with the device behaviour and the broker.              *)
(***************************************************************************)
\* what generate_telemetry() may return: a JSON object, a dict that
\* json.dumps cannot serialise (it holds a datetime), or None
TelemetryPayloads ==
    { [t |-> "obj",  serial |-> TRUE,  temperature |-> 22],
      [t |-> "obj",  serial |-> FALSE, temperature |-> 22],
      [t |-> "null", serial |-> TRUE,  temperature |-> 0] }
NoPayload == [t |-> "none", serial |-> TRUE, temperature |-> 0]

\* arguments of publish_alert
AlertStatuses == {"FIRE_DETECTED", NotAString}
AlertSeverities == {"CRITICAL", "BOGUS"}
\* additional_data: None, {"status": "OVERRIDE"},
\* {"severity": "LOW", "level": "9"}
NoExtra == [status |-> Absent, severity |-> Absent, level |-> Absent]
AlertExtras ==
    { NoExtra,
      [status |-> "OVERRIDE", severity |-> Absent, level |-> Absent],
      [status |-> Absent, severity |-> "LOW", level |-> "9"] }

\* no call of publish_alert
NoAlertCall == [alert_status |-> Absent, severity |-> Absent, additional_data |-> NoExtra]

\* self.state: {} at construction; afterwards whatever handle_command left
\* (the request it applied, and whether json.dumps can serialise it)
InitialState == [applied |-> "none", action |-> "none", serial |-> TRUE]

\* desired states carried by a shadow delta
NoDesired == [t |-> Absent, request_id |-> Absent, action |-> Absent, parameters |-> Absent]
DesiredStates ==
    { [t |-> "obj", request_id |-> "cmd-1", action |-> "LOCK",   parameters |-> "{force:false}"],
      [t |-> "obj", request_id |-> Absent,  action |-> "LOCK",   parameters |-> Absent],
      [t |-> "obj", request_id |-> NotAString, action |-> "LOCK", parameters |-> "{}"],
      [t |-> "str", request_id |-> Absent,  action |-> Absent,   parameters |-> Absent] }

\* inbound bytes: bytes that are not UTF-8, text that is not JSON, and JSON
\* documents: a number, a string or a list that holds "state", an object
\* without "state", and the objects {"state": d}
InboundMessages ==
    { [bytes |-> "badutf8", top |-> Absent, has_state |-> FALSE, state |-> NoDesired],
      [bytes |-> "notjson", top |-> Absent, has_state |-> FALSE, state |-> NoDesired],
      [bytes |-> "json", top |-> "num",  has_state |-> FALSE, state |-> NoDesired],
      [bytes |-> "json", top |-> "str",  has_state |-> TRUE,  state |-> NoDesired],
      [bytes |-> "json", top |-> "list", has_state |-> TRUE,  state |-> NoDesired],
      [bytes |-> "json", top |-> "obj",  has_state |-> FALSE, state |-> NoDesired] }
    \cup
    { [bytes |-> "json", top |-> "obj", has_state |-> TRUE, state |-> d] : d \in DesiredStates }
NoInbound == [bytes |-> "none", top |-> Absent, has_state |-> FALSE, state |-> NoDesired]

\* json.dumps of a value: the JSON text that parses back to it
json_dumps(v) == [json |-> v]

\* topics, as (prefix, device_id, suffix)
TelemetryTopic(cfg) == <<"devices", cfg.device_id, "telemetry">>
AlertTopic(cfg) == <<"devices", cfg.device_id, "alerts">>
ShadowUpdateTopic(cfg) == <<"$aws/things", cfg.device_id, "shadow/update">>
ShadowDeltaTopic(cfg) == <<"$aws/things", cfg.device_id, "shadow/update/delta">>
NoTopic == <<"", "", "">>
\* no call of mqtt_client.publish
NoMessage == [t |-> "none"]
NothingSent == [topic |-> NoTopic, payload |-> json_dumps(NoMessage)]


(***************************************************************************)
(* State.                                                                  *)
(***************************************************************************)
VARIABLES
    \* construction-time inputs
    config,           \* self.config
    schema_files,     \* content of the three schema files when loaded
    schemas,          \* SchemaValidator.schemas
    \* fields of BaseDevice
    is_connected,
    status,
    state,
    last_published,   \* set of <<topic, time>>, one pair per topic
    last_heartbeat,
    error_count,
    uptime_seconds,
    \* the main thread: start() = connect() then run()
    pc,
    interval,         \* local of run()
    telemetry,        \* local of run()
    main_tmp,         \* value of self.error_count read by  += 1  on the main thread
    alerted,          \* generate_telemetry, in progress, has raised its alert
    alert_call,       \* arguments of the publish_alert call the latest step made
    \* the network thread of the MQTT client and its callbacks
    netpc,
    net_tmp,          \* value of self.error_count read by  += 1  in _on_connect
    cb_msg,           \* the message _on_message is handling
    \* the transport
    loop_thread,      \* the network thread runs (loop_start() .. loop_stop())
    link,             \* "none", "pending", "up", "refused", "lost", "closed"
    subscribed,       \* topics subscribed on the current connection
    sent,             \* what the latest step of the main thread handed to mqtt_client.publish
    net_sent,         \* what the latest callback handed to mqtt_client.publish
    now,              \* time.time(), whole seconds
    \* history
    handled,          \* what the latest step of the network thread gave to handle_command
    pt_result,        \* outcome of the publish_telemetry call of the iteration
                      \* in progress ("none" outside an iteration)
    interrupted,      \* KeyboardInterrupt was raised in connect() or run()
    propagating,      \* an exception run() does not catch is waiting for the
                      \* finally clause to end
    disconnects,      \* number of calls of disconnect() by the main thread
    failures,         \* executions of  error_count += 1  since the last  error_count = 0
    \* the owner of the session, on a third thread
    stop_pc,          \* its call of disconnect(): "none", "joining",
                      \* "disconnecting", "od_flag", "od_status", "returned"
    iterations_after_stop   \* iterations the loop in progress has started since
                            \* that call began (0 once the loop has ended)

vars == <<config, schema_files, schemas, is_connected, status, state,
          last_published, last_heartbeat, error_count, uptime_seconds,
          pc, interval, telemetry, main_tmp, alerted, alert_call,
          netpc, net_tmp, cb_msg, loop_thread, link, subscribed, sent,
          net_sent, now,
          handled, pt_result, interrupted, propagating, disconnects,
          failures, stop_pc, iterations_after_stop>>


(***************************************************************************)
(* BaseDevice.__init__ and SchemaValidator.__init__.                       *)
(***************************************************************************)
Init ==
    /\ \E s \in Sessions : config = s[1] /\ schema_files = s[2]
    /\ schemas = _load_schemas(schema_files)
    /\ is_connected = FALSE
    /\ status = "INACTIVE"
    /\ state = InitialState
    /\ last_published = {}
    /\ last_heartbeat = 0
    /\ error_count = 0
    /\ uptime_seconds = 0
    /\ pc = "start"
    /\ interval = 0
    /\ telemetry = NoPayload
    /\ main_tmp = 0
    /\ alerted = FALSE
    /\ alert_call = NoAlertCall
    /\ netpc = "idle"
    /\ net_tmp = 0
    /\ cb_msg = NoInbound
    /\ loop_thread = FALSE
    /\ link = "none"
    /\ subscribed = {}
    /\ sent = NothingSent
    /\ net_sent = NothingSent
    /\ now = 0
    /\ handled = NoInbound
    /\ pt_result = "none"
    /\ interrupted = FALSE
    /\ propagating = FALSE
    /\ disconnects = 0
    /\ failures = 0
    /\ stop_pc = "none"
    /\ iterations_after_stop = 0


(***************************************************************************)
(* The network thread.  It exists from loop_start() (connect) to           *)
(* loop_stop() (disconnect); it handles one transport event at a time and  *)
(* runs the callback of that event to its end.  Its events need the        *)
(* thread and a link that is neither "none" nor "closed".                  *)
(***************************************************************************)
\* The broker answers the pending connection request: CONNACK with code rc.
\* rc = 0 accepts, rc = 5 (not authorised) refuses.
ConnAck ==
    /\ netpc = "idle"
    /\ loop_thread
    /\ handled' = NoInbound
    /\ link = "pending"
    /\ \E rc \in {0, 5} :
          IF rc = 0
          THEN /\ link' = "up"
               /\ netpc' = "oc_connected"
          ELSE /\ error_count < MaxErrors
               /\ link' = "refused"
               /\ netpc' = "oc_error"
    /\ UNCHANGED <<config, schema_files, schemas, is_connected, status, state,
                   last_published, last_heartbeat, error_count, uptime_seconds,
                   pc, interval, telemetry, main_tmp, alerted, alert_call,
                   net_tmp, cb_msg, loop_thread, subscribed, sent, net_sent,
                   now, pt_result, interrupted, propagating, disconnects,
                   failures, stop_pc, iterations_after_stop>>

\* _on_connect, rc == 0:  self.is_connected = True
oc_connected ==
    /\ netpc = "oc_connected"
    /\ handled' = NoInbound
    /\ is_connected' = TRUE
    /\ netpc' = "oc_active"
    /\ UNCHANGED <<config, schema_files, schemas, status, state,
                   last_published, last_heartbeat, error_count, uptime_seconds,
                   pc, interval, telemetry, main_tmp, alerted, alert_call,
                   net_tmp, cb_msg, loop_thread, link, subscribed, sent,
                   net_sent, now, pt_result, interrupted, propagating,
                   disconnects, failures, stop_pc, iterations_after_stop>>

\* _on_connect, rc == 0:  self.status = DeviceStatus.ACTIVE
oc_active ==
    /\ netpc = "oc_active"
    /\ handled' = NoInbound
    /\ status' = "ACTIVE"
    /\ netpc' = "oc_reset"
    /\ UNCHANGED <<config, schema_files, schemas, is_connected, state,
                   last_published, last_heartbeat, error_count, uptime_seconds,
                   pc, interval, telemetry, main_tmp, alerted, alert_call,
                   net_tmp, cb_msg, loop_thread, link, subscribed, sent,
                   net_sent, now, pt_result, interrupted, propagating,
                   disconnects, failures, stop_pc, iterations_after_stop>>

\* _on_connect without the reset of error_count
oc_reset_missing ==
    /\ handled' = NoInbound
    /\ netpc = "oc_reset"
    /\ netpc' = "oc_subscribe"
    /\ UNCHANGED <<config, schema_files, schemas, is_connected, status, state,
                   last_published, last_heartbeat, error_count, uptime_seconds,
                   pc, interval, telemetry, main_tmp, alerted, alert_call,
                   net_tmp, cb_msg, loop_thread, link, subscribed, sent,
                   net_sent, now, pt_result, interrupted, propagating,
                   disconnects, failures, stop_pc, iterations_after_stop>>

\* _on_connect, rc == 0:  self.error_count = 0
oc_reset ==
    /\ netpc = "oc_reset"
    /\ handled' = NoInbound
    /\ error_count' = 0
    /\ failures' = 0
    /\ netpc' = "oc_subscribe"
    /\ UNCHANGED <<config, schema_files, schemas, is_connected, status, state,
                   last_published, last_heartbeat, uptime_seconds, pc,
                   interval, telemetry, main_tmp, alerted, alert_call, net_tmp,
                   cb_msg, loop_thread, link, subscribed, sent, net_sent, now,
                   pt_result, interrupted, propagating, disconnects, stop_pc,
                   iterations_after_stop>>

\* _on_connect, rc == 0:  client.subscribe(command_topic, qos=1)
oc_subscribe ==
    /\ netpc = "oc_subscribe"
    /\ handled' = NoInbound
    /\ subscribed' = subscribed \cup {ShadowDeltaTopic(config)}
    /\ netpc' = "idle"
    /\ UNCHANGED <<config, schema_files, schemas, is_connected, status, state,
                   last_published, last_heartbeat, error_count, uptime_seconds,
                   pc, interval, telemetry, main_tmp, alerted, alert_call,
                   net_tmp, cb_msg, loop_thread, link, sent, net_sent, now,
                   pt_result, interrupted, propagating, disconnects, failures,
                   stop_pc, iterations_after_stop>>

\* _on_connect, rc != 0:  self.status = DeviceStatus.ERROR
oc_error ==
    /\ netpc = "oc_error"
    /\ handled' = NoInbound
    /\ status' = "ERROR"
    /\ netpc' = "oc_count_read"
    /\ UNCHANGED <<config, schema_files, schemas, is_connected, state,
                   last_published, last_heartbeat, error_count, uptime_seconds,
                   pc, interval, telemetry, main_tmp, alerted, alert_call,
                   net_tmp, cb_msg, loop_thread, link, subscribed, sent,
                   net_sent, now, pt_result, interrupted, propagating,
                   disconnects, failures, stop_pc, iterations_after_stop>>

\* _on_connect, rc != 0:  self.error_count += 1   (load, then store)
oc_count_read ==
    /\ netpc = "oc_count_read"
    /\ handled' = NoInbound
    /\ net_tmp' = error_count
    /\ netpc' = "oc_count_write"
    /\ UNCHANGED <<config, schema_files, schemas, is_connected, status, state,
                   last_published, last_heartbeat, error_count, uptime_seconds,
                   pc, interval, telemetry, main_tmp, alerted, alert_call,
                   cb_msg, loop_thread, link, subscribed, sent, net_sent, now,
                   pt_result, interrupted, propagating, disconnects, failures,
                   stop_pc, iterations_after_stop>>

oc_count_write ==
    /\ netpc = "oc_count_write"
    /\ handled' = NoInbound
    /\ error_count' = net_tmp + 1
    /\ failures' = failures + 1
    /\ net_tmp' = 0
    /\ netpc' = "idle"
    /\ UNCHANGED <<config, schema_files, schemas, is_connected, status, state,
                   last_published, last_heartbeat, uptime_seconds, pc,
                   interval, telemetry, main_tmp, alerted, alert_call, cb_msg,
                   loop_thread, link, subscribed, sent, net_sent, now,
                   pt_result, interrupted, propagating, disconnects, stop_pc,
                   iterations_after_stop>>

_on_connect ==
    \/ oc_connected \/ oc_active \/ oc_reset \/ oc_subscribe
    \/ oc_error \/ oc_count_read \/ oc_count_write

\* The connection is lost (socket error, keepalive timeout, or the close that
\* follows a refused CONNACK): the client calls on_disconnect with rc != 0.
ConnectionLost ==
    /\ netpc = "idle"
    /\ loop_thread
    /\ handled' = NoInbound
    /\ link \in {"pending", "up", "refused"}
    /\ link' = "lost"
    /\ subscribed' = {}
    /\ netpc' = "od_flag"
    /\ UNCHANGED <<config, schema_files, schemas, is_connected, status, state,
                   last_published, last_heartbeat, error_count, uptime_seconds,
                   pc, interval, telemetry, main_tmp, alerted, alert_call,
                   net_tmp, cb_msg, loop_thread, sent, net_sent, now,
                   pt_result, interrupted, propagating, disconnects, failures,
                   stop_pc, iterations_after_stop>>

\* _on_disconnect:  self.is_connected = False
od_flag ==
    /\ netpc = "od_flag"
    /\ handled' = NoInbound
    /\ is_connected' = FALSE
    /\ netpc' = "od_status"
    /\ UNCHANGED <<config, schema_files, schemas, status, state,
                   last_published, last_heartbeat, error_count, uptime_seconds,
                   pc, interval, telemetry, main_tmp, alerted, alert_call,
                   net_tmp, cb_msg, loop_thread, link, subscribed, sent,
                   net_sent, now, pt_result, interrupted, propagating,
                   disconnects, failures, stop_pc, iterations_after_stop>>

\* _on_disconnect:  self.status = DeviceStatus.OFFLINE
od_status ==
    /\ netpc = "od_status"
    /\ handled' = NoInbound
    /\ status' = "OFFLINE"
    /\ netpc' = "idle"
    /\ UNCHANGED <<config, schema_files, schemas, is_connected, state,
                   last_published, last_heartbeat, error_count, uptime_seconds,
                   pc, interval, telemetry, main_tmp, alerted, alert_call,
                   net_tmp, cb_msg, loop_thread, link, subscribed, sent,
                   net_sent, now, pt_result, interrupted, propagating,
                   disconnects, failures, stop_pc, iterations_after_stop>>

_on_disconnect == od_flag \/ od_status

\* The client's loop reconnects after a lost connection.
Reconnect ==
    /\ netpc = "idle"
    /\ loop_thread
    /\ handled' = NoInbound
    /\ link = "lost"
    /\ link' = "pending"
    /\ UNCHANGED <<config, schema_files, schemas, is_connected, status, state,
                   last_published, last_heartbeat, error_count, uptime_seconds,
                   pc, interval, telemetry, main_tmp, alerted, alert_call,
                   netpc, net_tmp, cb_msg, loop_thread, subscribed, sent,
                   net_sent, now, pt_result, interrupted, propagating,
                   disconnects, failures, stop_pc, iterations_after_stop>>

(***************************************************************************)
(* _on_message.                                                            *)
(***************************************************************************)
\* _on_message without the validate_command gate
on_message_outcome_ungated(loaded, msg) ==
    IF msg.bytes = "badutf8" THEN "UnicodeDecodeError"
    ELSE IF msg.bytes = "notjson" THEN "JSONDecodeError"
    ELSE IF msg.top = "num" THEN "TypeError"
    ELSE IF ~msg.has_state THEN "no state"
    ELSE IF msg.top # "obj" THEN "TypeError"
    ELSE "handle_command"

\* What the body of _on_message does with a message:
\*   json.loads(msg.payload.decode('utf-8'))  UnicodeDecodeError, JSONDecodeError
\*   "state" in payload                       TypeError for a number
\*   payload["state"]                         TypeError for a string or a list
\*   self.validator.validate_command(desired_state)
\* Every exception is caught and logged.
on_message_outcome(loaded, msg) ==
    IF msg.bytes = "badutf8" THEN "UnicodeDecodeError"
    ELSE IF msg.bytes = "notjson" THEN "JSONDecodeError"
    ELSE IF msg.top = "num" THEN "TypeError"
    ELSE IF ~msg.has_state THEN "no state"
    ELSE IF msg.top # "obj" THEN "TypeError"
    ELSE IF validate_command(loaded, msg.state) THEN "handle_command"
    ELSE "invalid command"

\* handle_command is abstract.  The behaviours modelled: the command is
\* applied to self.state (which json.dumps can or cannot serialise
\* afterwards), or handle_command raises before changing anything.
handle_command(command) ==
    \/ \E ser \in BOOLEAN :
          state' = [applied |-> command.request_id, action |-> command.action,
                    serial |-> ser]
    \/ state' = state

\* A message arrives on the subscribed topic.
MessageArrives ==
    /\ netpc = "idle"
    /\ loop_thread
    /\ handled' = NoInbound
    /\ link = "up"
    /\ ShadowDeltaTopic(config) \in subscribed
    /\ \E m \in InboundMessages : cb_msg' = m
    /\ netpc' = "om_body"
    /\ UNCHANGED <<config, schema_files, schemas, is_connected, status, state,
                   last_published, last_heartbeat, error_count, uptime_seconds,
                   pc, interval, telemetry, main_tmp, alerted, alert_call,
                   net_tmp, loop_thread, link, subscribed, sent, net_sent, now,
                   pt_result, interrupted, propagating, disconnects, failures,
                   stop_pc, iterations_after_stop>>

\* The callback publishes nothing: there is no call of update_shadow or of
\* mqtt_client.publish in _on_message.
_on_message ==
    /\ netpc = "om_body"
    /\ net_sent' = NothingSent
    /\ IF on_message_outcome(schemas, cb_msg) = "handle_command"
       THEN /\ handle_command(cb_msg.state)
            /\ handled' = cb_msg
       ELSE /\ state' = state
            /\ handled' = NoInbound
    /\ cb_msg' = NoInbound
    /\ netpc' = "idle"
    /\ UNCHANGED <<config, schema_files, schemas, is_connected, status,
                   last_published, last_heartbeat, error_count, uptime_seconds,
                   pc, interval, telemetry, main_tmp, alerted, alert_call,
                   net_tmp, loop_thread, link, subscribed, sent, now,
                   pt_result, interrupted, propagating, disconnects, failures,
                   stop_pc, iterations_after_stop>>

NetworkThread ==
    \/ ConnAck \/ _on_connect
    \/ ConnectionLost \/ _on_disconnect
    \/ Reconnect
    \/ MessageArrives \/ _on_message


(***************************************************************************)
(* The main thread: start() is connect() followed by run().                *)
(***************************************************************************)
\* start(publish_interval): opens the connection, then runs the loop; an
\* exception of connect() propagates and the loop is not entered.
start ==
    /\ pc = "start"
    /\ sent' = NothingSent
    /\ pc' = "c_connect"
    /\ UNCHANGED <<config, schema_files, schemas, is_connected, status, state,
                   last_published, last_heartbeat, error_count, uptime_seconds,
                   interval, telemetry, main_tmp, alerted, alert_call, netpc,
                   net_tmp, cb_msg, loop_thread, link, subscribed, net_sent,
                   now, handled, pt_result, interrupted, propagating,
                   disconnects, failures, stop_pc, iterations_after_stop>>

\* a call into the MQTT client returns or raises
CallOutcomes == {"ok", "raises"}

\* connect():  self.mqtt_client.connect(...)
\* The client's connect either sends the request or raises (socket error).
c_connect ==
    /\ pc = "c_connect"
    /\ sent' = NothingSent
    /\ \E outcome \in CallOutcomes :
          /\ link' = IF outcome = "ok" THEN "pending" ELSE link
          /\ pc' = IF outcome = "ok" THEN "c_loop_start" ELSE "c_except"
    /\ UNCHANGED <<config, schema_files, schemas, is_connected, status, state,
                   last_published, last_heartbeat, error_count, uptime_seconds,
                   interval, telemetry, main_tmp, alerted, alert_call, netpc,
                   net_tmp, cb_msg, loop_thread, subscribed, net_sent, now,
                   handled, pt_result, interrupted, propagating, disconnects,
                   failures, stop_pc, iterations_after_stop>>

\* connect():  self.mqtt_client.loop_start()
\* starts the network thread, or raises and no thread was started
c_loop_start ==
    /\ pc = "c_loop_start"
    /\ sent' = NothingSent
    /\ \E outcome \in CallOutcomes :
          /\ loop_thread' = IF outcome = "ok" THEN TRUE ELSE loop_thread
          /\ pc' = IF outcome = "ok" THEN "c_sleep" ELSE "c_except"
    /\ UNCHANGED <<config, schema_files, schemas, is_connected, status, state,
                   last_published, last_heartbeat, error_count, uptime_seconds,
                   interval, telemetry, main_tmp, alerted, alert_call, netpc,
                   net_tmp, cb_msg, link, subscribed, net_sent, now, handled,
                   pt_result, interrupted, propagating, disconnects, failures,
                   stop_pc, iterations_after_stop>>

\* connect():  time.sleep(2)
c_sleep ==
    /\ pc = "c_sleep"
    /\ sent' = NothingSent
    /\ now' = now + ConnectWait
    /\ pc' = "c_check"
    /\ UNCHANGED <<config, schema_files, schemas, is_connected, status, state,
                   last_published, last_heartbeat, error_count, uptime_seconds,
                   interval, telemetry, main_tmp, alerted, alert_call, netpc,
                   net_tmp, cb_msg, loop_thread, link, subscribed, net_sent,
                   handled, pt_result, interrupted, propagating, disconnects,
                   failures, stop_pc, iterations_after_stop>>

\* connect() returning without the check of is_connected
c_check_missing ==
    /\ sent' = NothingSent
    /\ pc = "c_check"
    /\ pc' = "r_entry"
    /\ UNCHANGED <<config, schema_files, schemas, is_connected, status, state,
                   last_published, last_heartbeat, error_count, uptime_seconds,
                   interval, telemetry, main_tmp, alerted, alert_call, netpc,
                   net_tmp, cb_msg, loop_thread, link, subscribed, net_sent,
                   now, handled, pt_result, interrupted, propagating,
                   disconnects, failures, stop_pc, iterations_after_stop>>

\* connect():  if self.is_connected: ... else: raise Exception(...)
c_check ==
    /\ pc = "c_check"
    /\ sent' = NothingSent
    /\ pc' = IF is_connected THEN "r_entry" ELSE "c_except"
    /\ UNCHANGED <<config, schema_files, schemas, is_connected, status, state,
                   last_published, last_heartbeat, error_count, uptime_seconds,
                   interval, telemetry, main_tmp, alerted, alert_call, netpc,
                   net_tmp, cb_msg, loop_thread, link, subscribed, net_sent,
                   now, handled, pt_result, interrupted, propagating,
                   disconnects, failures, stop_pc, iterations_after_stop>>

\* connect():  except Exception: self.status = DeviceStatus.ERROR; raise
c_except ==
    /\ pc = "c_except"
    /\ sent' = NothingSent
    /\ status' = "ERROR"
    /\ pc' = "raised"
    /\ UNCHANGED <<config, schema_files, schemas, is_connected, state,
                   last_published, last_heartbeat, error_count, uptime_seconds,
                   interval, telemetry, main_tmp, alerted, alert_call, netpc,
                   net_tmp, cb_msg, loop_thread, link, subscribed, net_sent,
                   now, handled, pt_result, interrupted, propagating,
                   disconnects, failures, stop_pc, iterations_after_stop>>

\* KeyboardInterrupt while connect() runs: it is not an Exception, so the
\* except clause (and its status assignment) is skipped and the interrupt
\* leaves connect() and start().
c_interrupt ==
    /\ pc \in {"c_connect", "c_loop_start", "c_sleep", "c_check", "c_except"}
    /\ sent' = NothingSent
    /\ pc' = "aborted"
    /\ interrupted' = TRUE
    /\ UNCHANGED <<config, schema_files, schemas, is_connected, status, state,
                   last_published, last_heartbeat, error_count, uptime_seconds,
                   interval, telemetry, main_tmp, alerted, alert_call, netpc,
                   net_tmp, cb_msg, loop_thread, link, subscribed, net_sent,
                   now, handled, pt_result, propagating, disconnects, failures,
                   stop_pc, iterations_after_stop>>

connect ==
    \/ c_connect \/ c_loop_start \/ c_sleep \/ c_check \/ c_except
    \/ c_interrupt

(***************************************************************************)
(* publish_telemetry, publish_alert, update_shadow.                        *)
(***************************************************************************)
\* the type of every device taken to be "sensor"
device_type_always_sensor(cfg) == "sensor"

\* "sensor" if "sensor" in self.config.device_type else "actuator"
device_type(cfg) ==
    IF IsSubstring(SensorWord, cfg.device_type) THEN "sensor" ELSE "actuator"

\* the message publish_telemetry builds
TelemetryMessage(cfg, t, payload) ==
    [device_id |-> cfg.device_id, timestamp |-> t,
     type |-> device_type(cfg), payload |-> payload]

\* the alert payload with the arguments taking precedence over additional_data
AlertPayload_arguments_first(alert_status, severity, additional_data) ==
    [status   |-> alert_status,
     severity |-> severity,
     level    |-> additional_data.level]

\* alert_payload = {status, severity}; alert_payload.update(additional_data)
AlertPayload(alert_status, severity, additional_data) ==
    [status   |-> IF additional_data.status # Absent
                  THEN additional_data.status ELSE alert_status,
     severity |-> IF additional_data.severity # Absent
                  THEN additional_data.severity ELSE severity,
     level    |-> additional_data.level]

\* the message publish_alert builds
AlertMessage(cfg, t, alert_status, severity, additional_data) ==
    [device_id |-> cfg.device_id, timestamp |-> t, type |-> device_type(cfg),
     payload |-> AlertPayload(alert_status, severity, additional_data)]

\* the message update_shadow builds
ShadowMessage(reported_state) == [state |-> [reported |-> reported_state]]

\* self.last_published[topic] = datetime.now()
SetLastPublished(lp, topic, t) ==
    {e \in lp : e[1] # topic} \cup {<<topic, t>>}

\* publish_telemetry without the validate_telemetry gate
publish_telemetry_unvalidated ==
    /\ pc = "r_publish"
    /\ telemetry' = NoPayload
    /\ LET message == TelemetryMessage(config, now, telemetry)
           topic == TelemetryTopic(config)
       IN  IF ~telemetry.serial
           THEN /\ pt_result' = "raised"
                /\ pc' = "pt_count_read"
                /\ sent' = NothingSent
           ELSE /\ sent' = [topic |-> topic, payload |-> json_dumps(message)]
                /\ pt_result' = IF is_connected THEN "published"
                                 ELSE "published unconnected"
                /\ pc' = "pt_last_published"
    /\ UNCHANGED <<config, schema_files, schemas, is_connected, status, state,
                   last_published, last_heartbeat, error_count, uptime_seconds,
                   interval, main_tmp, alerted, alert_call, netpc, net_tmp,
                   cb_msg, loop_thread, link, subscribed, net_sent, now,
                   handled, interrupted, propagating, disconnects, failures,
                   stop_pc, iterations_after_stop>>

\* publish_telemetry(telemetry): build, validate, json.dumps, publish; the
\* bookkeeping follows statement by statement (pt_last_published,
\* pt_heartbeat, pt_uptime).  A failed validation returns; an exception of
\* json.dumps goes to the except clause (pt_count_read, pt_count_write).
\* pt_result records the outcome, and for a published message whether
\* is_connected was set when it was handed over.
publish_telemetry ==
    /\ pc = "r_publish"
    /\ telemetry' = NoPayload
    /\ LET message == TelemetryMessage(config, now, telemetry)
           topic == TelemetryTopic(config)
       IN  IF ~validate_telemetry(schemas, message)
           THEN /\ pt_result' = "invalid"
                /\ pc' = "r_shadow"
                /\ sent' = NothingSent
           ELSE IF ~telemetry.serial
           THEN /\ pt_result' = "raised"
                /\ pc' = "pt_count_read"
                /\ sent' = NothingSent
           ELSE /\ sent' = [topic |-> topic, payload |-> json_dumps(message)]
                /\ pt_result' = IF is_connected THEN "published"
                                 ELSE "published unconnected"
                /\ pc' = "pt_last_published"
    /\ UNCHANGED <<config, schema_files, schemas, is_connected, status, state,
                   last_published, last_heartbeat, error_count, uptime_seconds,
                   interval, main_tmp, alerted, alert_call, netpc, net_tmp,
                   cb_msg, loop_thread, link, subscribed, net_sent, now,
                   handled, interrupted, propagating, disconnects, failures,
                   stop_pc, iterations_after_stop>>

\* publish_telemetry:  self.last_published[topic] = datetime.now()
pt_last_published ==
    /\ pc = "pt_last_published"
    /\ sent' = NothingSent
    /\ last_published' = SetLastPublished(last_published, TelemetryTopic(config), now)
    /\ pc' = "pt_heartbeat"
    /\ UNCHANGED <<config, schema_files, schemas, is_connected, status, state,
                   last_heartbeat, error_count, uptime_seconds, interval,
                   telemetry, main_tmp, alerted, alert_call, netpc, net_tmp,
                   cb_msg, loop_thread, link, subscribed, net_sent, now,
                   handled, pt_result, interrupted, propagating, disconnects,
                   failures, stop_pc, iterations_after_stop>>

\* publish_telemetry:  self.last_heartbeat = time.time()
pt_heartbeat ==
    /\ pc = "pt_heartbeat"
    /\ sent' = NothingSent
    /\ last_heartbeat' = now
    /\ pc' = "pt_uptime"
    /\ UNCHANGED <<config, schema_files, schemas, is_connected, status, state,
                   last_published, error_count, uptime_seconds, interval,
                   telemetry, main_tmp, alerted, alert_call, netpc, net_tmp,
                   cb_msg, loop_thread, link, subscribed, net_sent, now,
                   handled, pt_result, interrupted, propagating, disconnects,
                   failures, stop_pc, iterations_after_stop>>

\* publish_telemetry:  self.uptime_seconds += self.config.publish_interval
pt_uptime ==
    /\ pc = "pt_uptime"
    /\ sent' = NothingSent
    /\ uptime_seconds' = uptime_seconds + config.publish_interval
    /\ pc' = "r_shadow"
    /\ UNCHANGED <<config, schema_files, schemas, is_connected, status, state,
                   last_published, last_heartbeat, error_count, interval,
                   telemetry, main_tmp, alerted, alert_call, netpc, net_tmp,
                   cb_msg, loop_thread, link, subscribed, net_sent, now,
                   handled, pt_result, interrupted, propagating, disconnects,
                   failures, stop_pc, iterations_after_stop>>

\* publish_telemetry, except clause:  self.error_count += 1  (load, then store)
pt_count_read ==
    /\ pc = "pt_count_read"
    /\ sent' = NothingSent
    /\ main_tmp' = error_count
    /\ pc' = "pt_count_write"
    /\ UNCHANGED <<config, schema_files, schemas, is_connected, status, state,
                   last_published, last_heartbeat, error_count, uptime_seconds,
                   interval, telemetry, alerted, alert_call, netpc, net_tmp,
                   cb_msg, loop_thread, link, subscribed, net_sent, now,
                   handled, pt_result, interrupted, propagating, disconnects,
                   failures, stop_pc, iterations_after_stop>>

pt_count_write ==
    /\ pc = "pt_count_write"
    /\ sent' = NothingSent
    /\ error_count' = main_tmp + 1
    /\ failures' = failures + 1
    /\ main_tmp' = 0
    /\ pc' = "r_shadow"
    /\ UNCHANGED <<config, schema_files, schemas, is_connected, status, state,
                   last_published, last_heartbeat, uptime_seconds, interval,
                   telemetry, alerted, alert_call, netpc, net_tmp, cb_msg,
                   loop_thread, link, subscribed, net_sent, now, handled,
                   pt_result, interrupted, propagating, disconnects, stop_pc,
                   iterations_after_stop>>

\* publish_alert(alert_status, severity, additional_data), called by the
\* device behaviour while it generates telemetry (at most once a cycle).
publish_alert ==
    /\ pc = "r_generate"
    /\ ~alerted
    /\ alerted' = TRUE
    /\ \E alert_status \in AlertStatuses, severity \in AlertSeverities,
          additional_data \in AlertExtras :
          LET message == AlertMessage(config, now, alert_status, severity,
                                      additional_data)
          IN  /\ alert_call' = [alert_status |-> alert_status,
                                severity |-> severity,
                                additional_data |-> additional_data]
              /\ IF ~validate_alert(schemas, message)
                 THEN sent' = NothingSent
                 ELSE sent' = [topic |-> AlertTopic(config),
                               payload |-> json_dumps(message)]
    /\ UNCHANGED <<config, schema_files, schemas, is_connected, status, state,
                   last_published, last_heartbeat, error_count, uptime_seconds,
                   pc, interval, telemetry, main_tmp, netpc, net_tmp, cb_msg,
                   loop_thread, link, subscribed, net_sent, now, handled,
                   pt_result, interrupted, propagating, disconnects, failures,
                   stop_pc, iterations_after_stop>>

\* update_shadow(self.state): json.dumps, publish; an exception of json.dumps
\* is caught and logged inside update_shadow.
update_shadow ==
    /\ pc = "r_shadow"
    /\ IF state.serial
       THEN /\ sent' = [topic |-> ShadowUpdateTopic(config),
                        payload |-> json_dumps(ShadowMessage(state))]
       ELSE sent' = NothingSent
    /\ pc' = "r_sleep"
    /\ UNCHANGED <<config, schema_files, schemas, is_connected, status, state,
                   last_published, last_heartbeat, error_count, uptime_seconds,
                   interval, telemetry, main_tmp, alerted, alert_call, netpc,
                   net_tmp, cb_msg, loop_thread, link, subscribed, net_sent,
                   now, handled, pt_result, interrupted, propagating,
                   disconnects, failures, stop_pc, iterations_after_stop>>


(***************************************************************************)
(* run(publish_interval).                                                  *)
(* Everything inside the while loop is inside the inner try. The inner     *)
(* except clause (log, count, sleep) raises when its time.sleep(interval)  *)
(* does, which is the case for a negative interval; that exception reaches *)
(* the outer  except Exception  ("Fatal error"). The ways out of the loop  *)
(* are the loop test, KeyboardInterrupt and that exception.                *)
(* One KeyboardInterrupt is delivered at most, while connect() runs or     *)
(* before the cleanup of run() begins; delivered outside the try block or  *)
(* inside the handler of the fatal error it leaves run() as an exception.  *)
(***************************************************************************)
\* interval = publish_interval or self.config.publish_interval
r_entry ==
    /\ pc = "r_entry"
    /\ sent' = NothingSent
    /\ \E publish_interval \in IntervalOverrides :
          interval' = IF publish_interval # 0 THEN publish_interval
                      ELSE config.publish_interval
    /\ pc' = "r_while"
    /\ UNCHANGED <<config, schema_files, schemas, is_connected, status, state,
                   last_published, last_heartbeat, error_count, uptime_seconds,
                   telemetry, main_tmp, alerted, alert_call, netpc, net_tmp,
                   cb_msg, loop_thread, link, subscribed, net_sent, now,
                   handled, pt_result, interrupted, propagating, disconnects,
                   failures, stop_pc, iterations_after_stop>>

\* while self.is_connected:
r_while ==
    /\ pc = "r_while"
    /\ sent' = NothingSent
    /\ pc' = IF is_connected THEN "r_generate" ELSE "r_finally"
    /\ pt_result' = "none"
    /\ telemetry' = IF is_connected THEN telemetry ELSE NoPayload
    /\ iterations_after_stop' =
          IF ~is_connected THEN 0
          ELSE IF stop_pc # "none" THEN iterations_after_stop + 1
          ELSE iterations_after_stop
    /\ UNCHANGED <<config, schema_files, schemas, is_connected, status, state,
                   last_published, last_heartbeat, error_count, uptime_seconds,
                   interval, main_tmp, alerted, alert_call, netpc, net_tmp,
                   cb_msg, loop_thread, link, subscribed, net_sent, now,
                   handled, interrupted, propagating, disconnects, failures,
                   stop_pc>>

\* telemetry = self.generate_telemetry()   (abstract: returns a payload or raises)
generate_telemetry ==
    /\ pc = "r_generate"
    /\ sent' = NothingSent
    /\ alert_call' = NoAlertCall
    /\ alerted' = FALSE
    /\ \/ /\ \E p \in TelemetryPayloads :
                /\ p.serial \/ error_count < MaxErrors
                /\ telemetry' = p
          /\ pc' = "r_publish"
       \/ /\ error_count < MaxErrors
          /\ telemetry' = telemetry
          /\ pc' = "r_count_read"
    /\ UNCHANGED <<config, schema_files, schemas, is_connected, status, state,
                   last_published, last_heartbeat, error_count, uptime_seconds,
                   interval, main_tmp, netpc, net_tmp, cb_msg, loop_thread,
                   link, subscribed, net_sent, now, handled, pt_result,
                   interrupted, propagating, disconnects, failures, stop_pc,
                   iterations_after_stop>>

\* time.sleep(interval) at the end of the try block; a negative interval
\* makes time.sleep raise ValueError, which the except clause of the loop
\* catches
r_sleep ==
    /\ pc = "r_sleep"
    /\ sent' = NothingSent
    /\ IF interval < 0
       THEN /\ now' = now
            /\ pc' = "r_count_read"
       ELSE /\ now + interval <= MaxTime
            /\ now' = now + interval
            /\ pc' = "r_while"
    /\ UNCHANGED <<config, schema_files, schemas, is_connected, status, state,
                   last_published, last_heartbeat, error_count, uptime_seconds,
                   interval, telemetry, main_tmp, alerted, alert_call, netpc,
                   net_tmp, cb_msg, loop_thread, link, subscribed, net_sent,
                   handled, pt_result, interrupted, propagating, disconnects,
                   failures, stop_pc, iterations_after_stop>>

\* except Exception:  self.error_count += 1   (load, then store)
r_count_read ==
    /\ pc = "r_count_read"
    /\ sent' = NothingSent
    /\ main_tmp' = error_count
    /\ pc' = "r_count_write"
    /\ UNCHANGED <<config, schema_files, schemas, is_connected, status, state,
                   last_published, last_heartbeat, error_count, uptime_seconds,
                   interval, telemetry, alerted, alert_call, netpc, net_tmp,
                   cb_msg, loop_thread, link, subscribed, net_sent, now,
                   handled, pt_result, interrupted, propagating, disconnects,
                   failures, stop_pc, iterations_after_stop>>

\* the except clause of the loop leaving the loop after counting
r_count_write_leaves ==
    /\ pc = "r_count_write"
    /\ sent' = NothingSent
    /\ error_count' = main_tmp + 1
    /\ failures' = failures + 1
    /\ main_tmp' = 0
    /\ pc' = "r_finally"
    /\ UNCHANGED <<config, schema_files, schemas, is_connected, status, state,
                   last_published, last_heartbeat, uptime_seconds, interval,
                   telemetry, alerted, alert_call, netpc, net_tmp, cb_msg,
                   loop_thread, link, subscribed, net_sent, now, handled,
                   pt_result, interrupted, propagating, disconnects, stop_pc,
                   iterations_after_stop>>

r_count_write ==
    /\ pc = "r_count_write"
    /\ sent' = NothingSent
    /\ error_count' = main_tmp + 1
    /\ failures' = failures + 1
    /\ main_tmp' = 0
    /\ pc' = "r_except_sleep"
    /\ UNCHANGED <<config, schema_files, schemas, is_connected, status, state,
                   last_published, last_heartbeat, uptime_seconds, interval,
                   telemetry, alerted, alert_call, netpc, net_tmp, cb_msg,
                   loop_thread, link, subscribed, net_sent, now, handled,
                   pt_result, interrupted, propagating, disconnects, stop_pc,
                   iterations_after_stop>>

\* except Exception:  time.sleep(interval); with a negative interval
\* time.sleep raises inside the except clause and the exception leaves the
\* loop for the outer except Exception
r_except_sleep ==
    /\ pc = "r_except_sleep"
    /\ sent' = NothingSent
    /\ IF interval < 0
       THEN /\ now' = now
            /\ pc' = "r_fatal"
       ELSE /\ now + interval <= MaxTime
            /\ now' = now + interval
            /\ pc' = "r_while"
    /\ UNCHANGED <<config, schema_files, schemas, is_connected, status, state,
                   last_published, last_heartbeat, error_count, uptime_seconds,
                   interval, telemetry, main_tmp, alerted, alert_call, netpc,
                   net_tmp, cb_msg, loop_thread, link, subscribed, net_sent,
                   handled, pt_result, interrupted, propagating, disconnects,
                   failures, stop_pc, iterations_after_stop>>

\* except Exception as e:  logger.error("Fatal error")   (then the finally)
r_fatal ==
    /\ pc = "r_fatal"
    /\ sent' = NothingSent
    /\ alert_call' = NoAlertCall
    /\ alerted' = FALSE
    /\ pt_result' = "none"
    /\ telemetry' = NoPayload
    /\ iterations_after_stop' = 0
    /\ pc' = "r_finally"
    /\ UNCHANGED <<config, schema_files, schemas, is_connected, status, state,
                   last_published, last_heartbeat, error_count, uptime_seconds,
                   interval, main_tmp, netpc, net_tmp, cb_msg, loop_thread,
                   link, subscribed, net_sent, now, handled, interrupted,
                   propagating, disconnects, failures, stop_pc>>

\* KeyboardInterrupt inside the handler of the fatal error: the clause
\* except KeyboardInterrupt  of the same try does not catch it, the finally
\* clause runs and run() then raises the interrupt
r_fatal_interrupt ==
    /\ pc = "r_fatal"
    /\ sent' = NothingSent
    /\ alert_call' = NoAlertCall
    /\ alerted' = FALSE
    /\ pt_result' = "none"
    /\ telemetry' = NoPayload
    /\ iterations_after_stop' = 0
    /\ pc' = "r_finally"
    /\ interrupted' = TRUE
    /\ propagating' = TRUE
    /\ UNCHANGED <<config, schema_files, schemas, is_connected, status, state,
                   last_published, last_heartbeat, error_count, uptime_seconds,
                   interval, main_tmp, netpc, net_tmp, cb_msg, loop_thread,
                   link, subscribed, net_sent, now, handled, disconnects,
                   failures, stop_pc>>

\* KeyboardInterrupt at the first statement of run(), which is before the
\* try: run() raises and its finally clause does not apply
r_entry_interrupt ==
    /\ pc = "r_entry"
    /\ sent' = NothingSent
    /\ pc' = "aborted"
    /\ interrupted' = TRUE
    /\ UNCHANGED <<config, schema_files, schemas, is_connected, status, state,
                   last_published, last_heartbeat, error_count, uptime_seconds,
                   interval, telemetry, main_tmp, alerted, alert_call, netpc,
                   net_tmp, cb_msg, loop_thread, link, subscribed, net_sent,
                   now, handled, pt_result, propagating, disconnects, failures,
                   stop_pc, iterations_after_stop>>

\* positions of the main thread inside the finally clause of run()
InCleanup == pc \in {"r_finally", "d_disconnect", "d_od_flag", "d_od_status"}

\* positions of the main thread inside the loop of run()
InRun ==
    pc \in {"r_while", "r_generate", "r_publish", "pt_last_published",
            "pt_heartbeat", "pt_uptime", "pt_count_read", "pt_count_write",
            "r_shadow", "r_sleep", "r_count_read", "r_count_write",
            "r_except_sleep"}

\* except KeyboardInterrupt: the interrupt arrives at any point of the loop
KeyboardInterrupt ==
    /\ InRun
    /\ sent' = NothingSent
    /\ alert_call' = NoAlertCall
    /\ alerted' = FALSE
    /\ pt_result' = "none"
    /\ telemetry' = NoPayload
    /\ iterations_after_stop' = 0
    /\ pc' = "r_finally"
    /\ interrupted' = TRUE
    /\ UNCHANGED <<config, schema_files, schemas, is_connected, status, state,
                   last_published, last_heartbeat, error_count, uptime_seconds,
                   interval, main_tmp, netpc, net_tmp, cb_msg, loop_thread,
                   link, subscribed, net_sent, now, handled, propagating,
                   disconnects, failures, stop_pc>>

\* A call of disconnect() is two calls into the client, each of which may
\* raise; except Exception logs the exception and disconnect() returns.
\*   loop_stop()               tells the network thread to end and waits for
\*                             it (the thread finishes the callback it is in)
\*   mqtt_client.disconnect()  closes the connection; on an open socket the
\*                             client then calls _on_disconnect(rc = 0) in
\*                             the calling thread, without a socket it calls
\*                             nothing
\* the call of mqtt_client.disconnect() enters _on_disconnect
EntersCallback(outcome) == outcome = "ok" /\ link \in {"pending", "up"}

\* where the main thread is when the finally clause of run() has ended:
\* run() has returned, or has raised the exception that was waiting
RunExit == IF propagating THEN "aborted" ELSE "done"

\* finally: self.disconnect()   up to and including  loop_stop()
disconnect ==
    /\ pc = "r_finally"
    /\ sent' = NothingSent
    /\ \E outcome \in CallOutcomes :
          /\ outcome = "raises" \/ netpc = "idle"
          /\ IF outcome = "ok"
             THEN /\ loop_thread' = FALSE
                  /\ pc' = "d_disconnect"
                  /\ disconnects' = disconnects
                  /\ propagating' = propagating
             ELSE /\ loop_thread' = loop_thread
                  /\ pc' = RunExit
                  /\ disconnects' = disconnects + 1
                  /\ propagating' = FALSE
    /\ UNCHANGED <<config, schema_files, schemas, is_connected, status, state,
                   last_published, last_heartbeat, error_count, uptime_seconds,
                   interval, telemetry, main_tmp, alerted, alert_call, netpc,
                   net_tmp, cb_msg, link, subscribed, net_sent, now, handled,
                   pt_result, interrupted, failures, stop_pc,
                   iterations_after_stop>>

\* disconnect() called by the owner of the session on the main thread after
\* start() has ended (run() has returned, or connect() or run() has raised):
\* the call up to and including  loop_stop()
disconnect_again ==
    /\ pc \in {"done", "stopped", "raised", "aborted"}
    /\ disconnects < MaxDisconnects
    /\ sent' = NothingSent
    /\ \E outcome \in CallOutcomes :
          /\ outcome = "raises" \/ netpc = "idle"
          /\ IF outcome = "ok"
             THEN /\ loop_thread' = FALSE
                  /\ pc' = "a_disconnect"
                  /\ disconnects' = disconnects
             ELSE /\ loop_thread' = loop_thread
                  /\ pc' = "stopped"
                  /\ disconnects' = disconnects + 1
    /\ UNCHANGED <<config, schema_files, schemas, is_connected, status, state,
                   last_published, last_heartbeat, error_count, uptime_seconds,
                   interval, telemetry, main_tmp, alerted, alert_call, netpc,
                   net_tmp, cb_msg, link, subscribed, net_sent, now, handled,
                   pt_result, interrupted, propagating, failures, stop_pc,
                   iterations_after_stop>>

\* disconnect() in the main thread:  self.mqtt_client.disconnect()
\* The callback's two assignments are the steps disconnect_od_flag and
\* disconnect_od_status.
disconnect_client ==
    /\ pc \in {"d_disconnect", "a_disconnect"}
    /\ sent' = NothingSent
    /\ \E outcome \in CallOutcomes :
          /\ link' = IF outcome = "ok" THEN "closed" ELSE link
          /\ subscribed' = IF outcome = "ok" THEN {} ELSE subscribed
          /\ IF EntersCallback(outcome)
             THEN /\ pc' = IF pc = "d_disconnect" THEN "d_od_flag"
                           ELSE "a_od_flag"
                  /\ disconnects' = disconnects
                  /\ propagating' = propagating
             ELSE /\ pc' = IF pc = "d_disconnect" THEN RunExit ELSE "stopped"
                  /\ disconnects' = disconnects + 1
                  /\ propagating' = FALSE
    /\ UNCHANGED <<config, schema_files, schemas, is_connected, status, state,
                   last_published, last_heartbeat, error_count, uptime_seconds,
                   interval, telemetry, main_tmp, alerted, alert_call, netpc,
                   net_tmp, cb_msg, loop_thread, net_sent, now, handled,
                   pt_result, interrupted, failures, stop_pc,
                   iterations_after_stop>>

\* _on_disconnect in the main thread:  self.is_connected = False
disconnect_od_flag ==
    /\ pc \in {"d_od_flag", "a_od_flag"}
    /\ sent' = NothingSent
    /\ is_connected' = FALSE
    /\ pc' = IF pc = "d_od_flag" THEN "d_od_status" ELSE "a_od_status"
    /\ UNCHANGED <<config, schema_files, schemas, status, state,
                   last_published, last_heartbeat, error_count, uptime_seconds,
                   interval, telemetry, main_tmp, alerted, alert_call, netpc,
                   net_tmp, cb_msg, loop_thread, link, subscribed, net_sent,
                   now, handled, pt_result, interrupted, propagating,
                   disconnects, failures, stop_pc, iterations_after_stop>>

\* _on_disconnect in the main thread:  self.status = DeviceStatus.OFFLINE
\* and disconnect() returns
disconnect_od_status ==
    /\ pc \in {"d_od_status", "a_od_status"}
    /\ sent' = NothingSent
    /\ status' = "OFFLINE"
    /\ disconnects' = disconnects + 1
    /\ pc' = IF pc = "d_od_status" THEN RunExit ELSE "stopped"
    /\ propagating' = FALSE
    /\ UNCHANGED <<config, schema_files, schemas, is_connected, state,
                   last_published, last_heartbeat, error_count, uptime_seconds,
                   interval, telemetry, main_tmp, alerted, alert_call, netpc,
                   net_tmp, cb_msg, loop_thread, link, subscribed, net_sent,
                   now, handled, pt_result, interrupted, failures, stop_pc,
                   iterations_after_stop>>

run ==
    \/ r_entry \/ r_while \/ generate_telemetry \/ publish_alert
    \/ publish_telemetry \/ pt_last_published \/ pt_heartbeat \/ pt_uptime
    \/ pt_count_read \/ pt_count_write
    \/ update_shadow \/ r_sleep
    \/ r_count_read \/ r_count_write \/ r_except_sleep \/ r_fatal
    \/ r_fatal_interrupt \/ r_entry_interrupt \/ KeyboardInterrupt
    \/ disconnect

MainThread ==
    \/ start \/ connect \/ run \/ disconnect_again
    \/ disconnect_client \/ disconnect_od_flag \/ disconnect_od_status

(***************************************************************************)
(* The owner of the session calls disconnect() from a third thread while   *)
(* start() runs (BaseDevice has no other stop operation).                  *)
(***************************************************************************)
\* the owner's thread enters disconnect()
stop_request ==
    /\ pc \notin {"done", "stopped", "raised", "aborted", "a_disconnect",
               "a_od_flag", "a_od_status"}
    /\ stop_pc = "none"
    /\ stop_pc' = "joining"
    /\ UNCHANGED <<config, schema_files, schemas, is_connected, status, state,
                   last_published, last_heartbeat, error_count, uptime_seconds,
                   pc, interval, telemetry, main_tmp, alerted, alert_call,
                   netpc, net_tmp, cb_msg, loop_thread, link, subscribed, sent,
                   net_sent, now, handled, pt_result, interrupted, propagating,
                   disconnects, failures, iterations_after_stop>>

\* the owner's call:  loop_stop()  tells the network thread to end and waits
\* for it; the wait lasts as long as the callback the network thread is in,
\* and the main thread goes on meanwhile.
stop_loop_stop ==
    /\ stop_pc = "joining"
    /\ \E outcome \in CallOutcomes :
          /\ outcome = "raises" \/ netpc = "idle"
          /\ loop_thread' = IF outcome = "ok" THEN FALSE ELSE loop_thread
          /\ stop_pc' = IF outcome = "ok" THEN "disconnecting" ELSE "returned"
    /\ UNCHANGED <<config, schema_files, schemas, is_connected, status, state,
                   last_published, last_heartbeat, error_count, uptime_seconds,
                   pc, interval, telemetry, main_tmp, alerted, alert_call,
                   netpc, net_tmp, cb_msg, link, subscribed, sent, net_sent,
                   now, handled, pt_result, interrupted, propagating,
                   disconnects, failures, iterations_after_stop>>

\* the owner's call:  self.mqtt_client.disconnect()  up to its return or to
\* the callback (stop_od_flag, stop_od_status)
stop_disconnect ==
    /\ stop_pc = "disconnecting"
    /\ \E outcome \in CallOutcomes :
          /\ link' = IF outcome = "ok" THEN "closed" ELSE link
          /\ subscribed' = IF outcome = "ok" THEN {} ELSE subscribed
          /\ stop_pc' = IF EntersCallback(outcome) THEN "od_flag" ELSE "returned"
    /\ UNCHANGED <<config, schema_files, schemas, is_connected, status, state,
                   last_published, last_heartbeat, error_count, uptime_seconds,
                   pc, interval, telemetry, main_tmp, alerted, alert_call,
                   netpc, net_tmp, cb_msg, loop_thread, sent, net_sent, now,
                   handled, pt_result, interrupted, propagating, disconnects,
                   failures, iterations_after_stop>>

\* _on_disconnect in the owner's thread:  self.is_connected = False
stop_od_flag ==
    /\ stop_pc = "od_flag"
    /\ is_connected' = FALSE
    /\ stop_pc' = "od_status"
    /\ UNCHANGED <<config, schema_files, schemas, status, state,
                   last_published, last_heartbeat, error_count, uptime_seconds,
                   pc, interval, telemetry, main_tmp, alerted, alert_call,
                   netpc, net_tmp, cb_msg, loop_thread, link, subscribed, sent,
                   net_sent, now, handled, pt_result, interrupted, propagating,
                   disconnects, failures, iterations_after_stop>>

\* _on_disconnect in the owner's thread:  self.status = DeviceStatus.OFFLINE
\* and disconnect() returns
stop_od_status ==
    /\ stop_pc = "od_status"
    /\ status' = "OFFLINE"
    /\ stop_pc' = "returned"
    /\ UNCHANGED <<config, schema_files, schemas, is_connected, state,
                   last_published, last_heartbeat, error_count, uptime_seconds,
                   pc, interval, telemetry, main_tmp, alerted, alert_call,
                   netpc, net_tmp, cb_msg, loop_thread, link, subscribed, sent,
                   net_sent, now, handled, pt_result, interrupted, propagating,
                   disconnects, failures, iterations_after_stop>>

Owner ==
    \/ stop_request \/ stop_loop_stop \/ stop_disconnect
    \/ stop_od_flag \/ stop_od_status

Next == MainThread \/ NetworkThread \/ Owner

Spec == Init /\ [][Next]_vars



(***************************************************************************)
(* Properties.                                                             *)
(***************************************************************************)
\* positions of the main thread from start() until connect() has returned or raised
InConnect ==
    pc \in {"start", "c_connect", "c_loop_start", "c_sleep", "c_check",
            "c_except"}

\* C1: handle_command is invoked only for a message whose bytes parse as a
\* JSON object with a "state" field that passes validation under the command
\* schema; for every other message _on_message leaves handle_command
\* uninvoked and self.state unchanged.
Dispatchable(m) ==
    /\ m.bytes = "json"
    /\ m.top = "obj"
    /\ m.has_state
    /\ _validate(schemas, m.state, "command")

C1_CommandGate ==
    [][/\ handled' # NoInbound => Dispatchable(handled')
       /\ (netpc = "om_body" /\ netpc' = "idle" /\ ~Dispatchable(cb_msg))
             => (state' = state /\ handled' = NoInbound)]_vars

\* a valid command has been given to handle_command and applied
C1_Witness ==
    /\ handled # NoInbound
    /\ state.applied = "cmd-1"

\* the messages the session can hand to the validator in the current state
MessagesFor(n) ==
    CASE n = "telemetry" ->
           {TelemetryMessage(config, now, p) : p \in TelemetryPayloads}
      [] n = "alert" ->
           {AlertMessage(config, now, st, sv, ex) :
               st \in AlertStatuses, sv \in AlertSeverities, ex \in AlertExtras}
      [] n = "command" -> DesiredStates

\* C2: validation under a schema whose file was missing or malformed when
\* the validator was built answers False for every message, in every state.
C2_FailClosed ==
    \A n \in SchemaNames :
        schema_files[n] # "schema" =>
            \A m \in MessagesFor(n) : _validate(schemas, m, n) = FALSE

\* a telemetry message was validated against a missing schema and rejected
C2_Witness ==
    /\ schema_files["telemetry"] = "missing"
    /\ pt_result = "invalid"
    /\ pc = "r_shadow"


\* C3: a message reaches the transport on the telemetry (alert) topic only
\* if it passed validation under the telemetry (alert) schema; a
\* publish_telemetry call whose message fails validation hands nothing to the
\* transport and leaves uptime_seconds, last_published and last_heartbeat as
\* they were.
C3_ValidatedOnly ==
    [][/\ sent'.topic = TelemetryTopic(config)
            => _validate(schemas, sent'.payload.json, "telemetry")
       /\ sent'.topic = AlertTopic(config)
            => _validate(schemas, sent'.payload.json, "alert")
       /\ (/\ pc = "r_publish"
           /\ pc' # pc
           /\ ~_validate(schemas, TelemetryMessage(config, now, telemetry), "telemetry"))
            => /\ sent'.topic = NoTopic
               /\ pc' \in {"r_shadow", "r_finally"}
               /\ uptime_seconds' = uptime_seconds
               /\ last_published' = last_published
               /\ last_heartbeat' = last_heartbeat
       /\ (~alerted /\ alerted')
            => /\ sent'.topic \in {NoTopic, AlertTopic(config)}
               /\ uptime_seconds' = uptime_seconds
               /\ last_published' = last_published
               /\ last_heartbeat' = last_heartbeat]_vars

\* with the telemetry schema loaded, a payload failed validation and the call
\* returned without publishing
C3_Witness ==
    /\ schema_files["telemetry"] = "schema"
    /\ pt_result = "invalid"
    /\ pc = "r_shadow"
    /\ sent.topic = NoTopic
    /\ uptime_seconds = 0


\* no callback is in progress, on the network thread or inside a call of
\* disconnect()
NoCallback ==
    /\ netpc = "idle"
    /\ stop_pc \notin {"od_flag", "od_status"}
    /\ pc \notin {"d_od_flag", "d_od_status", "a_od_flag", "a_od_status"}

\* no callback is in progress and no  error_count += 1  is between its load
\* and its store
Quiescent ==
    /\ NoCallback
    /\ pc \notin {"pt_count_read", "pt_count_write", "r_count_read", "r_count_write"}

\* C4: in the telemetry loop, between callbacks, the status is ACTIVE exactly
\* when the session is connected with error_count = 0, and it is ERROR when
\* the session is connected with error_count > 0.
C4_StatusDerivation ==
    (InRun /\ Quiescent) =>
        /\ (status = "ACTIVE") <=> (is_connected /\ error_count = 0)
        /\ (is_connected /\ error_count > 0) => status = "ERROR"

\* C5: once the first connect attempt is over (connect() has returned or
\* raised), the status is never INACTIVE and it is OFFLINE whenever the
\* session is not connected. Read in the claim's favour: for the states
\* between callbacks of a session that no KeyboardInterrupt has ended.
C5_OfflineWheneverNotConnected ==
    (~InConnect /\ NoCallback /\ ~interrupted)
        => (/\ status # "INACTIVE"
            /\ ~is_connected => status = "OFFLINE")

\* C6: the reset in the handler of a successful acknowledgment leaves
\* error_count = 0, whatever it was.
C6_ResetOnConnect ==
    [][(netpc = "oc_reset" /\ netpc' # netpc) => error_count' = 0]_vars

\* a failed publish was counted, the session reconnected, and the handler has
\* just reset the count
C6_Witness ==
    /\ pt_result = "raised"
    /\ pc \in {"r_shadow", "r_sleep"}
    /\ netpc = "oc_subscribe"
    /\ error_count = 0

\* C7: a publish_telemetry call made while the session is not connected, with
\* a message that passes validation and serialises, hands nothing to the
\* transport, leaves uptime_seconds and last_published as they were and goes
\* on to count an error.
C7_PublishWhileDisconnected ==
    [][(/\ pc = "r_publish"
        /\ ~is_connected
        /\ pc' \notin {pc, "r_finally"}
        /\ telemetry.serial
        /\ _validate(schemas, TelemetryMessage(config, now, telemetry), "telemetry"))
          => /\ sent'.topic = NoTopic
             /\ uptime_seconds' = uptime_seconds
             /\ last_published' = last_published
             /\ pc' = "pt_count_read"]_vars

C9_ShadowErrorCounted ==
    [][(pc = "r_shadow" /\ ~state.serial /\ pc' \notin {pc, "r_finally"})
          => (error_count' = error_count + 1 \/ pc' = "r_count_read")]_vars

Session ==
    <<is_connected, status, state, error_count, uptime_seconds,
      last_published, last_heartbeat, link, subscribed>>

\* C11: every call of disconnect() returns to its caller with the session
\* not connected and its status not ACTIVE, and a call made after one that
\* closed the connection changes nothing of the session.
C11_Disconnect ==
    /\ [][disconnects' = disconnects + 1
            => /\ ~is_connected'
               /\ status' # "ACTIVE"
               /\ pc' \in {"done", "stopped", "aborted"}]_vars
    /\ [][(stop_pc # "returned" /\ stop_pc' = "returned")
            => (~is_connected' /\ status' # "ACTIVE")]_vars
    /\ [][(/\ disconnects >= 1
           /\ link = "closed"
           /\ pc \in {"done", "stopped", "a_disconnect"} /\ pc' # pc)
            => (Session' = Session /\ pc' \in {"a_disconnect", "stopped"})]_vars

\* C12: the handling of an inbound message that gives a command to
\* handle_command publishes, before it ends, a shadow update whose reported
\* state is the device state the command left.
C12_ShadowAfterCommand ==
    [][(netpc = "om_body" /\ handled' # NoInbound /\ state'.serial)
          => /\ net_sent'.topic = ShadowUpdateTopic(config)
             /\ net_sent'.payload = json_dumps(ShadowMessage(state'))]_vars

\* positions of the main thread inside one iteration of the loop, from the
\* statement after the loop test to the statement before the sleep
InIteration ==
    pc \in {"r_generate", "r_publish", "pt_last_published", "pt_heartbeat",
            "pt_uptime", "pt_count_read", "pt_count_write",
            "r_shadow", "r_count_read", "r_count_write"}

\* C13: while the main thread is inside an iteration of the loop, no step of
\* another thread writes the status, the counters or the device state.
C13_MutualExclusion ==
    [][(InIteration /\ pc' = pc)
          => <<status, error_count, uptime_seconds, state>>'
               = <<status, error_count, uptime_seconds, state>>]_vars

\* C14: after the owner has called disconnect() from another thread the loop
\* starts at most one further iteration (and then terminates: a loop that
\* starts a second one has not been stopped within one sleep).
C14_StopObserved == iterations_after_stop <= 1

\* C15: a session in the loop whose status is ERROR or OFFLINE is not ended
\* by that: unless it is interrupted or stopped by its owner, the loop is not
\* left and the transport is not closed, so that a reconnect can follow.
C15_KeepsReconnecting ==
    [][(/\ InRun
        /\ status \in {"ERROR", "OFFLINE"}
        /\ stop_pc = "none"
        /\ ~interrupted')
          => (pc' # "r_finally" /\ link' # "closed")]_vars

\* C16: whatever publish_telemetry hands to the transport goes to
\* devices/{device_id}/telemetry and is the envelope of the session's
\* identity: its device_id, the current time, type "sensor" if device_type
\* contains "sensor" and "actuator" otherwise, and the payload it was given;
\* and a payload that is a JSON object is published when the telemetry
\* schema is loaded.
C16_TelemetryEnvelope ==
    /\ [][(pc = "r_publish" /\ pc' # pc /\ sent'.topic # NoTopic)
            => /\ sent'.topic = <<"devices", config.device_id, "telemetry">>
               /\ sent'.payload.json.device_id = config.device_id
               /\ sent'.payload.json.timestamp = now
               /\ sent'.payload.json.type =
                     (IF IsSubstring(SensorWord, config.device_type)
                      THEN "sensor" ELSE "actuator")
               /\ sent'.payload.json.payload = telemetry]_vars
    /\ [][(/\ pc = "r_publish"
           /\ pc' \notin {pc, "r_finally"}
           /\ schema_files["telemetry"] = "schema"
           /\ telemetry.t = "obj"
           /\ telemetry.serial)
            => sent'.topic # NoTopic]_vars

\* the lock, whose device_type does not contain "sensor", has published a
\* telemetry message
C16_Witness ==
    /\ config.device_id = "lock-01"
    /\ pc = "pt_last_published"
    /\ pt_result = "published"
    /\ sent.topic = <<"devices", "lock-01", "telemetry">>
    /\ sent.payload.json.type = "actuator"
    /\ sent.payload.json.payload.temperature = 22

\* a publish_alert call has just handed a message to the transport
AlertPublished ==
    /\ ~alerted
    /\ alerted'
    /\ sent'.topic # NoTopic

\* C17, as stated: the alert published by publish_alert(status, severity,
\* extra) goes to devices/{device_id}/alerts with payload.status equal to the
\* status argument, payload.severity equal to the severity argument, and the
\* extra fields in the payload.
C17_AlertPayload ==
    [][AlertPublished
         => /\ sent'.topic = <<"devices", config.device_id, "alerts">>
            /\ sent'.payload.json.payload.status = alert_call'.alert_status
            /\ sent'.payload.json.payload.severity = alert_call'.severity
            /\ sent'.payload.json.payload.level
                  = alert_call'.additional_data.level]_vars

\* C17, amended: the alert goes to devices/{device_id}/alerts with every
\* field of the extra data in its payload; payload.status (payload.severity)
\* is the extra data's field of that name when it has one, and the status
\* (severity) argument when it has none.
C17_AlertPayloadMerged ==
    [][AlertPublished
         => LET extra == alert_call'.additional_data
                payload == sent'.payload.json.payload
            IN  /\ sent'.topic = <<"devices", config.device_id, "alerts">>
                /\ payload.level = extra.level
                /\ extra.status # Absent => payload.status = extra.status
                /\ extra.status = Absent
                      => payload.status = alert_call'.alert_status
                /\ extra.severity # Absent => payload.severity = extra.severity
                /\ extra.severity = Absent
                      => payload.severity = alert_call'.severity]_vars

\* publish_alert("FIRE_DETECTED", "CRITICAL", {"status": "OVERRIDE"}) has
\* published an alert whose payload.status is "OVERRIDE"
C17_Witness ==
    /\ alert_call.alert_status = "FIRE_DETECTED"
    /\ alert_call.severity = "CRITICAL"
    /\ alert_call.additional_data.status = "OVERRIDE"
    /\ sent.topic = <<"devices", config.device_id, "alerts">>
    /\ sent.payload.json.payload.status = "OVERRIDE"

\* C18: uptime_seconds grows by the configured publish interval in the
\* bookkeeping of every publish_telemetry call that published its message
\* on a connected session, and no other step changes it (so it never
\* decreases).
C18_Uptime ==
    [][uptime_seconds' = IF pc = "pt_uptime" /\ pc' = "r_shadow"
                            /\ pt_result = "published"
                         THEN uptime_seconds + config.publish_interval
                         ELSE uptime_seconds]_vars

\* C19: the session is never marked connected on a connection for which
\* the subscription to its shadow-delta topic has not been requested, and
\* the handling of a refused acknowledgment neither subscribes nor marks the
\* session connected.
C19_SubscribedWhenConnected ==
    /\ []((is_connected /\ link = "up")
            => ShadowDeltaTopic(config) \in subscribed)
    /\ [][(netpc \in {"oc_error", "oc_count_read", "oc_count_write"}
           /\ netpc' # netpc)
            => (subscribed' = subscribed /\ is_connected' = is_connected)]_vars

\* C20: once connect() has raised, the session is not connected and its
\* status is ERROR, whatever the transport delivers afterwards.
C20_FailureIsFinal ==
    pc = "raised" => (~is_connected /\ status = "ERROR")

\* C21: whenever no  error_count += 1  is between its load and its store
\* and no callback is in progress, error_count is the number of failures
\* counted since the last reset by a successful acknowledgment.
C21_CountIsExact ==
    Quiescent => error_count = failures

====
